---- MODULE Spec2Model ----
(***************************************************************************)
(* A state-machine model of src/main.py: the benchmark driver (main), the  *)
(* timer wrapper and the workloads cpu_single, cpu_multi (process pool),   *)
(* memory_test, disk_test, python_overhead and numpy_test.                 *)
(*                                                                         *)
(* The interpreter's call stack is the variable stack; pc is the position  *)
(* of the frame on top of it.  A run starts either in main() or in a       *)
(* direct call of one workload function with arguments from bounded sets.  *)
(* Failures the operating system can produce (no memory, no process, no    *)
(* file, an I/O error) are nondeterministic alternatives at the statement  *)
(* that can raise them.                                                    *)
(***************************************************************************)
EXTENDS Integers, Sequences, FiniteSets, TLC

(* ---------------------------- bounds ----------------------------------- *)
\* Arguments of the direct calls.
MaxN == 3
MaxWorkers == 2
MaxSizeMb == 3
\* mp.cpu_count() of the host the driver runs on.
Cores == 2
\* The byte count written 1024 * 1024 in the source (lines 39, 50, 51),
\* scaled down; the strides and the byte modulus keep their values.
MiB == 128
\* The per-tier factors 200_000, 256, 256, 5_000_000 and 300 of lines
\* 89-93, scaled down.
CpuItersUnit == 1
MemMbUnit == 1
DiskMbUnit == 1
PyItersUnit == 1
NpSizeUnit == 1

(* ------------------------ program constants ---------------------------- *)
WriteStride == 64
ReadStride == 64
ByteMod == 256
ByteLimit == 256

None == "None"

Tiers == {"small", "medium", "large"}

sizes == [small |-> 1, medium |-> 5, large |-> 10]

Phases ==
  <<"cpu_single", "cpu_multi", "memory_test", "disk_test",
    "python_overhead", "numpy_test">>

Entries == {"main", "cpu_multi", "memory_test", "disk_test", "python_overhead"}

VARIABLES
  entry,      \* the function the run was started in
  args,       \* its arguments
  HAS_NUMPY,  \* module-level flag set by the import at load time
  stack,      \* call stack, bottom first
  pc,         \* position of the top frame
  exc,        \* the exception in flight, or None
  thrown,     \* the exception as it was raised at its raise site
  ret,        \* the value of the last return
  returned,   \* workloads that returned normally, in order
  started,    \* workloads that were invoked, in order
  clock,      \* time.perf_counter()
  out,        \* lines printed to stdout
  mainv,      \* locals of main: phase index, t
  timerv,     \* locals of the current timer call
  multi,      \* cpu_multi: the pool, its task queue and the tasks
  mem,        \* locals of memory_test
  disk,       \* locals of disk_test and the temporary file
  py          \* locals of python_overhead

vars ==
  <<entry, args, HAS_NUMPY, stack, pc, exc, thrown, ret, returned, started,
    clock, out, mainv, timerv, multi, mem, disk, py>>

env == <<entry, args, HAS_NUMPY>>

(* ----------------------------- helpers --------------------------------- *)
Range(s) == {s[k] : k \in 1..Len(s)}

Top == IF stack = <<>> THEN "" ELSE stack[Len(stack)]

Pop == SubSeq(stack, 1, Len(stack) - 1)

At(f, label) == Top = f /\ pc = label

Min(a, b) == IF a < b THEN a ELSE b

FirstLabel(f) ==
  CASE f = "main" -> "m_header"
    [] f = "cpu_single" -> "cs_run"
    [] f = "cpu_multi" -> "cm_pool"
    [] f = "memory_test" -> "mt_alloc"
    [] f = "disk_test" -> "dt_open"
    [] f = "python_overhead" -> "po_init"
    [] f = "numpy_test" -> "np_run"

ArgsOf(e) ==
  CASE e = "main" -> [size : Tiers]
    [] e = "cpu_multi" -> [n : 0..MaxN, workers : 1..MaxWorkers]
    [] e = "memory_test" -> [size_mb : 0..MaxSizeMb]
    [] e = "disk_test" -> [size_mb : 0..MaxSizeMb]
    [] e = "python_overhead" -> [n : 0..MaxN]

\* Every step takes time: the monotonic clock moves on.
Tick == clock' = clock + 1

\* "return v" in the top frame f.
Return(f, v) ==
  /\ ret' = v
  /\ returned' = Append(returned, f)
  /\ stack' = Pop
  /\ pc' = IF Len(stack) > 1 THEN "t_return" ELSE "returned"
  /\ UNCHANGED <<exc, thrown>>

\* The top frame is left by an exception already in flight.
Propagate ==
  /\ stack' = Pop
  /\ pc' = IF Len(stack) > 1 THEN "raise" ELSE "raised"
  /\ UNCHANGED <<exc, thrown, ret, returned>>

\* A statement of the top frame raises e and the frame has no handler.
Throw(e) ==
  /\ exc' = e
  /\ thrown' = e
  /\ stack' = Pop
  /\ pc' = IF Len(stack) > 1 THEN "raise" ELSE "raised"
  /\ UNCHANGED <<ret, returned>>

\* A statement inside a with block raises e: control goes to the block's
\* __exit__ (label exit_label) with e in flight.
ThrowInWith(e, exit_label) ==
  /\ exc' = e
  /\ thrown' = e
  /\ pc' = exit_label
  /\ UNCHANGED <<stack, ret, returned>>

(* ------------------------- derived parameters -------------------------- *)
cpu_iters == sizes[args.size] * CpuItersUnit
mem_mb == sizes[args.size] * MemMbUnit
disk_mb == sizes[args.size] * DiskMbUnit
py_iters == sizes[args.size] * PyItersUnit
np_size == sizes[args.size] * NpSizeUnit

\* The arguments each lambda of main passes to its workload.
LambdaArgs(f) ==
  CASE f = "cpu_single" -> [n |-> cpu_iters]
    [] f = "cpu_multi" -> [n |-> cpu_iters, workers |-> Cores]
    [] f = "memory_test" -> [size_mb |-> mem_mb]
    [] f = "disk_test" -> [size_mb |-> disk_mb]
    [] f = "python_overhead" -> [n |-> py_iters]
    [] f = "numpy_test" -> [n |-> np_size]

\* The actual parameters of workload f in this run.
Actual(f) == IF entry = "main" THEN LambdaArgs(f) ELSE args

(* ------------------------------- Init ---------------------------------- *)
NoTimer == [fn |-> None, start |-> 0, end |-> 0, reads |-> 0, calls |-> 0,
            has_result |-> FALSE, elapsed |-> 0, result |-> None]

Init ==
  /\ entry \in Entries
  /\ args \in ArgsOf(entry)
  /\ HAS_NUMPY \in BOOLEAN
  /\ entry # "main" => HAS_NUMPY
  /\ stack = <<entry>>
  /\ pc = FirstLabel(entry)
  /\ exc = None
  /\ thrown = None
  /\ ret = None
  /\ returned = <<>>
  /\ started = IF entry = "main" THEN <<>> ELSE <<entry>>
  /\ clock = 0
  /\ out = <<>>
  /\ mainv = [phase |-> 0, t |-> 0]
  /\ timerv = NoTimer
  /\ multi = [pool |-> <<>>, queue |-> <<>>, tasks |-> <<>>,
              spawn_failed |-> FALSE, error |-> None]
  /\ mem = [size |-> 0, buf |-> <<>>, i |-> 0, s |-> 0,
            wrote |-> {}, read |-> {}]
  /\ disk = [size |-> 0, chunk |-> 0, exists |-> FALSE, open |-> FALSE,
             flen |-> 0, pos |-> 0, k |-> 0, written |-> 0, reads |-> <<>>,
             flushed |-> FALSE, created |-> FALSE]
  /\ py = [x |-> 0, k |-> 0, calls |-> <<>>]

(* ------------------------------ timer ---------------------------------- *)
\* start = time.perf_counter()
TimerStart ==
  /\ At("timer", "t_start")
  /\ timerv' = [timerv EXCEPT !.start = clock, !.reads = @ + 1]
  /\ pc' = "t_call"
  /\ Tick
  /\ UNCHANGED <<env, stack, exc, thrown, ret, returned, started, out, mainv,
                 multi, mem, disk, py>>

\* result = fn(): the lambda invokes its workload.
TimerCall ==
  /\ At("timer", "t_call")
  /\ timerv' = [timerv EXCEPT !.calls = @ + 1]
  /\ stack' = Append(stack, timerv.fn)
  /\ started' = Append(started, timerv.fn)
  /\ pc' = FirstLabel(timerv.fn)
  /\ Tick
  /\ UNCHANGED <<env, exc, thrown, ret, returned, out, mainv, multi, mem,
                 disk, py>>

\* return time.perf_counter() - start, result
TimerReturn ==
  /\ At("timer", "t_return")
  /\ timerv' = [timerv EXCEPT !.end = clock, !.reads = @ + 1,
                              !.elapsed = clock - timerv.start,
                              !.result = ret, !.has_result = TRUE]
  /\ stack' = Pop
  /\ pc' = "m_print"
  /\ Tick
  /\ UNCHANGED <<env, exc, thrown, ret, returned, started, out, mainv, multi,
                 mem, disk, py>>

\* A timer that swallows the failure of fn and returns a timing anyway.
TimerRaise_swallow ==
  /\ At("timer", "raise")
  /\ timerv' = [timerv EXCEPT !.end = clock, !.reads = @ + 1,
                              !.elapsed = clock - timerv.start,
                              !.has_result = TRUE]
  /\ exc' = None
  /\ stack' = Pop
  /\ pc' = "m_print"
  /\ Tick
  /\ UNCHANGED <<env, thrown, ret, returned, started, out, mainv, multi, mem,
                 disk, py>>

\* fn raised: timer has no handler, the exception leaves it as it came.
TimerRaise ==
  /\ At("timer", "raise")
  /\ Propagate
  /\ Tick
  /\ UNCHANGED <<env, started, out, mainv, timerv, multi, mem, disk, py>>

(* ------------------------------- main ---------------------------------- *)
Line(kind, text, param, t) ==
  [kind |-> kind, text |-> text, param |-> param, t |-> t]

ReportText(f) ==
  CASE f = "cpu_single" -> "CPU single-thread"
    [] f = "cpu_multi" -> "CPU multi-thread"
    [] f = "memory_test" -> "Memory"
    [] f = "disk_test" -> "Disk"
    [] f = "python_overhead" -> "Python overhead"
    [] f = "numpy_test" -> "NumPy"

ReportParam(f) ==
  CASE f = "memory_test" -> mem_mb
    [] f = "disk_test" -> disk_mb
    [] f = "numpy_test" -> np_size
    [] OTHER -> 0

\* Argument parsing, the derived parameters and the five header prints.
MainHeader ==
  /\ At("main", "m_header")
  /\ out' = out \o
       << Line("header", "=== Python System Benchmark ===", 0, 0),
          Line("header", "Python", 0, 0),
          Line("header", "CPU cores", Cores, 0),
          Line("header", "Benchmark size", sizes[args.size], 0),
          Line("header", "", 0, 0) >>
  /\ mainv' = [mainv EXCEPT !.phase = 1]
  /\ pc' = "m_timer"
  /\ Tick
  /\ UNCHANGED <<env, stack, exc, thrown, ret, returned, started, timerv,
                 multi, mem, disk, py>>

\* t, _ = timer(lambda: <workload>(...)): the call of timer.
MainTimer ==
  /\ At("main", "m_timer")
  /\ timerv' = [NoTimer EXCEPT !.fn = Phases[mainv.phase]]
  /\ stack' = Append(stack, "timer")
  /\ pc' = "t_start"
  /\ Tick
  /\ UNCHANGED <<env, exc, thrown, ret, returned, started, out, mainv, multi,
                 mem, disk, py>>

\* t, _ = <timer's result>; print(f"...: {t:.2f} s")
MainPrint ==
  /\ At("main", "m_print")
  /\ mainv' = [mainv EXCEPT !.t = timerv.elapsed,
                            !.phase = IF @ < 5 THEN @ + 1 ELSE @]
  /\ out' = Append(out, Line("report", ReportText(Phases[mainv.phase]),
                             ReportParam(Phases[mainv.phase]), timerv.elapsed))
  /\ pc' = CASE mainv.phase < 5 -> "m_timer"
             [] mainv.phase = 5 -> "m_if_numpy"
             [] OTHER -> "m_done"
  /\ Tick
  /\ UNCHANGED <<env, stack, exc, thrown, ret, returned, started, timerv,
                 multi, mem, disk, py>>

\* A driver that runs the matrix workload whether or not numpy was imported.
MainIfNumpy_always ==
  /\ At("main", "m_if_numpy")
  /\ mainv' = [mainv EXCEPT !.phase = 6]
  /\ pc' = "m_timer"
  /\ out' = out
  /\ Tick
  /\ UNCHANGED <<env, stack, exc, thrown, ret, returned, started, timerv,
                 multi, mem, disk, py>>

\* if HAS_NUMPY: ... else: print("NumPy: not installed")
MainIfNumpy ==
  /\ At("main", "m_if_numpy")
  /\ IF HAS_NUMPY
       THEN /\ mainv' = [mainv EXCEPT !.phase = 6]
            /\ pc' = "m_timer"
            /\ out' = out
       ELSE /\ mainv' = mainv
            /\ pc' = "m_done"
            /\ out' = Append(out, Line("skip", "NumPy: not installed", 0, 0))
  /\ Tick
  /\ UNCHANGED <<env, stack, exc, thrown, ret, returned, started, timerv,
                 multi, mem, disk, py>>

\* print("\nDone.") and main returns.
MainDone ==
  /\ At("main", "m_done")
  /\ out' = Append(out, Line("done", "\nDone.", 0, 0))
  /\ stack' = Pop
  /\ pc' = "exit"
  /\ Tick
  /\ UNCHANGED <<env, exc, thrown, ret, returned, started, mainv, timerv,
                 multi, mem, disk, py>>

\* A driver that catches the failure of a workload and runs it again.
MainRaise_retry ==
  /\ At("main", "raise")
  /\ exc' = None
  /\ pc' = "m_timer"
  /\ Tick
  /\ UNCHANGED <<env, stack, thrown, ret, returned, started, out, mainv,
                 timerv, multi, mem, disk, py>>

\* main has no try: an exception out of timer ends the process.
MainRaise ==
  /\ At("main", "raise")
  /\ stack' = Pop
  /\ pc' = "aborted"
  /\ Tick
  /\ UNCHANGED <<env, exc, thrown, ret, returned, started, out, mainv,
                 timerv, multi, mem, disk, py>>

(* ----------------------------- cpu_single ------------------------------ *)
\* x = sum over i in range(1, n) of sqrt(i) * sin(i), in that order.  The
\* float itself is not computed: the value is the sequence of the indexes
\* whose terms were accumulated.
cpu_single(n) == [k \in 1..(n - 1) |-> k]

cpu_worker(n) == cpu_single(n)

CpuSingleRun ==
  /\ At("cpu_single", "cs_run")
  /\ Return("cpu_single", cpu_single(Actual("cpu_single").n))
  /\ Tick
  /\ UNCHANGED <<env, started, out, mainv, timerv, multi, mem, disk, py>>

(* --------------------------- python_overhead --------------------------- *)
inner_two(x) == x + 2

inner(x) == x + 1

\* x = 0
PyInit ==
  /\ At("python_overhead", "po_init")
  /\ py' = [x |-> 0, k |-> 0, calls |-> <<>>]
  /\ pc' = "po_loop"
  /\ Tick
  /\ UNCHANGED <<env, stack, exc, thrown, ret, returned, started, out, mainv,
                 timerv, multi, mem, disk>>

\* One iteration of "for _ in range(n): x = inner(x)".
PyIter ==
  /\ At("python_overhead", "po_loop")
  /\ py.k < Actual("python_overhead").n
  /\ py' = [py EXCEPT !.x = inner(py.x), !.k = @ + 1,
                      !.calls = Append(@, [arg |-> py.x, res |-> inner(py.x)])]
  /\ Tick
  /\ UNCHANGED <<env, stack, pc, exc, thrown, ret, returned, started, out,
                 mainv, timerv, multi, mem, disk>>

\* The loop is exhausted: return x
PyReturn ==
  /\ At("python_overhead", "po_loop")
  /\ py.k >= Actual("python_overhead").n
  /\ Return("python_overhead", py.x)
  /\ Tick
  /\ UNCHANGED <<env, started, out, mainv, timerv, multi, mem, disk, py>>

(* ----------------------------- numpy_test ------------------------------ *)
\* a, b = random n x n matrices; return np.dot(a, b).  The product is
\* represented by its shape.  Without numpy the name np is unbound.
NumpyRun ==
  /\ At("numpy_test", "np_run")
  /\ IF HAS_NUMPY
       THEN Return("numpy_test", [rows |-> Actual("numpy_test").n,
                                  cols |-> Actual("numpy_test").n])
       ELSE Throw("NameError")
  /\ Tick
  /\ UNCHANGED <<env, started, out, mainv, timerv, multi, mem, disk, py>>

(* ------------------------------ cpu_multi ------------------------------ *)
AllExited(pool) == [w \in 1..Len(pool) |-> "exited"]

\* The iterable handed to p.map: [n] * workers.
MapIterable(n, workers) == [t \in 1..workers |-> n]

Completed(t) == multi.tasks[t].st \in {"done", "raised"}

\* mp.Pool(workers) starts its worker processes one after another.
PoolSpawn ==
  /\ At("cpu_multi", "cm_pool")
  /\ Len(multi.pool) < Actual("cpu_multi").workers
  /\ multi' = [multi EXCEPT !.pool = Append(@, "idle")]
  /\ pc' = IF Len(multi.pool) + 1 = Actual("cpu_multi").workers
             THEN "cm_map" ELSE "cm_pool"
  /\ Tick
  /\ UNCHANGED <<env, stack, exc, thrown, ret, returned, started, out, mainv,
                 timerv, mem, disk, py>>

\* A worker process cannot be started: the constructor stops the workers
\* it had started and raises; the with block is never entered.
PoolSpawnFail ==
  /\ At("cpu_multi", "cm_pool")
  /\ Len(multi.pool) < Actual("cpu_multi").workers
  /\ multi' = [multi EXCEPT !.pool = AllExited(@), !.spawn_failed = TRUE]
  /\ Throw("OSError")
  /\ Tick
  /\ UNCHANGED <<env, started, out, mainv, timerv, mem, disk, py>>

\* p.map(cpu_worker, [n] * workers): one task per element (chunksize 1),
\* queued in order; the parent then blocks.
MapSubmit ==
  /\ At("cpu_multi", "cm_map")
  /\ LET it == MapIterable(Actual("cpu_multi").n, Actual("cpu_multi").workers)
     IN  multi' = [multi EXCEPT
           !.tasks = [t \in 1..Len(it) |->
                        [arg |-> it[t], st |-> "queued", worker |-> 0,
                         result |-> <<>>]],
           !.queue = [t \in 1..Len(it) |-> t]]
  /\ pc' = "cm_wait"
  /\ Tick
  /\ UNCHANGED <<env, stack, exc, thrown, ret, returned, started, out, mainv,
                 timerv, mem, disk, py>>

\* An idle worker process takes the next task off the queue.
WorkerTake(w) ==
  /\ multi.pool[w] = "idle"
  /\ multi.queue # <<>>
  /\ LET t == Head(multi.queue)
     IN  multi' = [multi EXCEPT !.pool[w] = "busy",
                                !.queue = Tail(@),
                                !.tasks[t].st = "running",
                                !.tasks[t].worker = w]
  /\ Tick
  /\ UNCHANGED <<env, stack, pc, exc, thrown, ret, returned, started, out,
                 mainv, timerv, mem, disk, py>>

RunningOn(w) ==
  CHOOSE t \in 1..Len(multi.tasks) :
    multi.tasks[t].st = "running" /\ multi.tasks[t].worker = w

\* The worker's cpu_worker(n) returns; the result goes back to the parent.
WorkerFinish(w) ==
  /\ multi.pool[w] = "busy"
  /\ LET t == RunningOn(w)
     IN  multi' = [multi EXCEPT
           !.pool[w] = "idle",
           !.tasks[t].st = "done",
           !.tasks[t].result = cpu_worker(multi.tasks[t].arg)]
  /\ Tick
  /\ UNCHANGED <<env, stack, pc, exc, thrown, ret, returned, started, out,
                 mainv, timerv, mem, disk, py>>

\* The worker's cpu_worker(n) raises; the exception goes back to the
\* parent, which keeps the first one.
WorkerRaise(w) ==
  /\ multi.pool[w] = "busy"
  /\ LET t == RunningOn(w)
     IN  multi' = [multi EXCEPT
           !.pool[w] = "idle",
           !.tasks[t].st = "raised",
           !.error = IF @ = None THEN "WorkerError" ELSE @]
  /\ Tick
  /\ UNCHANGED <<env, stack, pc, exc, thrown, ret, returned, started, out,
                 mainv, timerv, mem, disk, py>>

\* A map that returns as soon as one task has completed.
MapReturn_first ==
  /\ At("cpu_multi", "cm_wait")
  /\ \E t \in 1..Len(multi.tasks) : Completed(t)
  /\ pc' = "cm_exit"
  /\ UNCHANGED <<stack, exc, thrown, ret, returned>>
  /\ Tick
  /\ UNCHANGED <<env, started, out, mainv, timerv, multi, mem, disk, py>>

\* A map that drops the exceptions of its tasks.
MapReturn_ignore ==
  /\ At("cpu_multi", "cm_wait")
  /\ \A t \in 1..Len(multi.tasks) : Completed(t)
  /\ pc' = "cm_exit"
  /\ UNCHANGED <<stack, exc, thrown, ret, returned>>
  /\ Tick
  /\ UNCHANGED <<env, started, out, mainv, timerv, multi, mem, disk, py>>

\* p.map returns once every task has completed, and re-raises the first
\* exception a task raised.
MapReturn ==
  /\ At("cpu_multi", "cm_wait")
  /\ \A t \in 1..Len(multi.tasks) : Completed(t)
  /\ IF multi.error = None
       THEN /\ pc' = "cm_exit"
            /\ UNCHANGED <<stack, exc, thrown, ret, returned>>
       ELSE ThrowInWith(multi.error, "cm_exit")
  /\ Tick
  /\ UNCHANGED <<env, started, out, mainv, timerv, multi, mem, disk, py>>

\* An exit that leaves the worker processes alive.
PoolExit_nojoin ==
  /\ At("cpu_multi", "cm_exit")
  /\ multi' = multi
  /\ IF exc = None THEN Return("cpu_multi", None) ELSE Propagate
  /\ Tick
  /\ UNCHANGED <<env, started, out, mainv, timerv, mem, disk, py>>

\* Pool.__exit__: terminate() stops and joins every worker process; then
\* cpu_multi returns None, or the exception in flight leaves it.
PoolExit ==
  /\ At("cpu_multi", "cm_exit")
  /\ multi' = [multi EXCEPT !.pool = AllExited(@), !.queue = <<>>]
  /\ IF exc = None THEN Return("cpu_multi", None) ELSE Propagate
  /\ Tick
  /\ UNCHANGED <<env, started, out, mainv, timerv, mem, disk, py>>

(* ----------------------------- memory_test ----------------------------- *)
MemByteValue_index(i) == (i \div WriteStride) % ByteMod

\* The value line 42 stores at offset i.
MemByteValue(i) == i % ByteMod

\* size = size_mb * 1024 * 1024; buf = bytearray(size)
MemAlloc ==
  /\ At("memory_test", "mt_alloc")
  /\ LET size == Actual("memory_test").size_mb * MiB
     IN  mem' = [size |-> size, buf |-> [j \in 0..(size - 1) |-> 0],
                 i |-> 0, s |-> 0, wrote |-> {}, read |-> {}]
  /\ pc' = "mt_write"
  /\ Tick
  /\ UNCHANGED <<env, stack, exc, thrown, ret, returned, started, out, mainv,
                 timerv, multi, disk, py>>

\* The buffer cannot be allocated.
MemAllocFail ==
  /\ At("memory_test", "mt_alloc")
  /\ Actual("memory_test").size_mb > 0
  /\ Throw("MemoryError")
  /\ Tick
  /\ UNCHANGED <<env, started, out, mainv, timerv, multi, mem, disk, py>>

\* One iteration of "for i in range(0, size, 64): buf[i] = i % 256"; a
\* bytearray accepts only values in range(256).
MemWrite ==
  /\ At("memory_test", "mt_write")
  /\ mem.i < mem.size
  /\ IF MemByteValue(mem.i) \in 0..(ByteLimit - 1)
       THEN /\ mem' = [mem EXCEPT !.buf[mem.i] = MemByteValue(mem.i),
                                  !.wrote = @ \cup {mem.i},
                                  !.i = @ + WriteStride]
            /\ UNCHANGED <<stack, pc, exc, thrown, ret, returned>>
       ELSE /\ mem' = mem
            /\ Throw("ValueError")
  /\ Tick
  /\ UNCHANGED <<env, started, out, mainv, timerv, multi, disk, py>>

\* The write loop is exhausted: s = 0 and the read loop starts at 0.
MemWriteDone ==
  /\ At("memory_test", "mt_write")
  /\ mem.i >= mem.size
  /\ mem' = [mem EXCEPT !.s = 0, !.i = 0]
  /\ pc' = "mt_read"
  /\ Tick
  /\ UNCHANGED <<env, stack, exc, thrown, ret, returned, started, out, mainv,
                 timerv, multi, disk, py>>

\* One iteration of "for i in range(0, size, 64): s += buf[i]".
MemRead ==
  /\ At("memory_test", "mt_read")
  /\ mem.i < mem.size
  /\ mem' = [mem EXCEPT !.s = @ + mem.buf[mem.i],
                        !.read = @ \cup {mem.i},
                        !.i = @ + ReadStride]
  /\ Tick
  /\ UNCHANGED <<env, stack, pc, exc, thrown, ret, returned, started, out,
                 mainv, timerv, multi, disk, py>>

\* The read loop is exhausted: return s
MemReturn ==
  /\ At("memory_test", "mt_read")
  /\ mem.i >= mem.size
  /\ Return("memory_test", mem.s)
  /\ Tick
  /\ UNCHANGED <<env, started, out, mainv, timerv, multi, mem, disk, py>>

(* ------------------------------ disk_test ------------------------------ *)
\* size = size_mb * 1024 * 1024; data = os.urandom(1024 * 1024);
\* NamedTemporaryFile(delete=True) creates and opens the file.
DiskOpen ==
  /\ At("disk_test", "dt_open")
  /\ disk' = [size |-> Actual("disk_test").size_mb * MiB, chunk |-> MiB,
              exists |-> TRUE, open |-> TRUE, created |-> TRUE,
              flen |-> 0, pos |-> 0, k |-> 0, written |-> 0,
              reads |-> <<>>, flushed |-> FALSE]
  /\ pc' = "dt_write"
  /\ Tick
  /\ UNCHANGED <<env, stack, exc, thrown, ret, returned, started, out, mainv,
                 timerv, multi, mem, py>>

\* The temporary file cannot be created: no file, no with block.
DiskOpenFail ==
  /\ At("disk_test", "dt_open")
  /\ disk' = [disk EXCEPT !.size = Actual("disk_test").size_mb * MiB,
                          !.chunk = MiB]
  /\ Throw("OSError")
  /\ Tick
  /\ UNCHANGED <<env, started, out, mainv, timerv, multi, mem, py>>

\* The number of iterations of the write loop: size // len(data).
WriteCount == disk.size \div disk.chunk

\* One iteration of the write loop: f.write(data).
DiskWrite ==
  /\ At("disk_test", "dt_write")
  /\ disk.k < WriteCount
  /\ disk' = [disk EXCEPT !.k = @ + 1,
                          !.flen = IF disk.pos + disk.chunk > @
                                     THEN disk.pos + disk.chunk ELSE @,
                          !.pos = @ + disk.chunk,
                          !.written = @ + disk.chunk]
  /\ Tick
  /\ UNCHANGED <<env, stack, pc, exc, thrown, ret, returned, started, out,
                 mainv, timerv, multi, mem, py>>

\* f.write(data) fails (the disk is full, an I/O error).
DiskWriteFail ==
  /\ At("disk_test", "dt_write")
  /\ disk.k < WriteCount
  /\ ThrowInWith("OSError", "dt_exit")
  /\ Tick
  /\ UNCHANGED <<env, started, out, mainv, timerv, multi, mem, disk, py>>

\* The write loop is exhausted: f.flush()
DiskFlush ==
  /\ At("disk_test", "dt_write")
  /\ disk.k >= WriteCount
  /\ disk' = [disk EXCEPT !.flushed = TRUE]
  /\ pc' = "dt_seek"
  /\ Tick
  /\ UNCHANGED <<env, stack, exc, thrown, ret, returned, started, out, mainv,
                 timerv, multi, mem, py>>

DiskFlushFail ==
  /\ At("disk_test", "dt_write")
  /\ disk.k >= WriteCount
  /\ ThrowInWith("OSError", "dt_exit")
  /\ Tick
  /\ UNCHANGED <<env, started, out, mainv, timerv, multi, mem, disk, py>>

\* A rewind that is left out: the position stays at the end of the file.
DiskSeek_missing ==
  /\ At("disk_test", "dt_seek")
  /\ disk' = disk
  /\ pc' = "dt_read"
  /\ Tick
  /\ UNCHANGED <<env, stack, exc, thrown, ret, returned, started, out, mainv,
                 timerv, multi, mem, py>>

\* f.seek(0)
DiskSeek ==
  /\ At("disk_test", "dt_seek")
  /\ disk' = [disk EXCEPT !.pos = 0]
  /\ pc' = "dt_read"
  /\ Tick
  /\ UNCHANGED <<env, stack, exc, thrown, ret, returned, started, out, mainv,
                 timerv, multi, mem, py>>

DiskSeekFail ==
  /\ At("disk_test", "dt_seek")
  /\ ThrowInWith("OSError", "dt_exit")
  /\ Tick
  /\ UNCHANGED <<env, started, out, mainv, timerv, multi, mem, disk, py>>

\* One evaluation of "while f.read(len(data))": the read returns at most
\* len(data) bytes from the position on; an empty read ends the loop.
DiskRead ==
  /\ At("disk_test", "dt_read")
  /\ LET got == Min(disk.chunk, disk.flen - disk.pos)
     IN  /\ disk' = [disk EXCEPT !.pos = @ + got,
                                 !.reads = Append(@, [at |-> disk.pos,
                                                      got |-> got])]
         /\ pc' = IF got > 0 THEN "dt_read" ELSE "dt_exit"
  /\ Tick
  /\ UNCHANGED <<env, stack, exc, thrown, ret, returned, started, out, mainv,
                 timerv, multi, mem, py>>

DiskReadFail ==
  /\ At("disk_test", "dt_read")
  /\ ThrowInWith("OSError", "dt_exit")
  /\ Tick
  /\ UNCHANGED <<env, started, out, mainv, timerv, multi, mem, disk, py>>

\* An exit that removes the file only when the block ended normally.
DiskExit_leak ==
  /\ At("disk_test", "dt_exit")
  /\ disk' = [disk EXCEPT !.open = FALSE,
                          !.exists = IF exc = None THEN FALSE ELSE @]
  /\ IF exc = None THEN Return("disk_test", None) ELSE Propagate
  /\ Tick
  /\ UNCHANGED <<env, started, out, mainv, timerv, multi, mem, py>>

\* The with block's __exit__: the file is closed and, delete=True, removed;
\* then disk_test returns None, or the exception in flight leaves it.
DiskExit ==
  /\ At("disk_test", "dt_exit")
  /\ disk' = [disk EXCEPT !.open = FALSE, !.exists = FALSE]
  /\ IF exc = None THEN Return("disk_test", None) ELSE Propagate
  /\ Tick
  /\ UNCHANGED <<env, started, out, mainv, timerv, multi, mem, py>>

(* ------------------------------- Next ---------------------------------- *)
Next ==
  \/ MainHeader \/ MainTimer \/ MainPrint \/ MainIfNumpy \/ MainDone
  \/ MainRaise
  \/ TimerStart \/ TimerCall \/ TimerReturn \/ TimerRaise
  \/ CpuSingleRun
  \/ PoolSpawn \/ PoolSpawnFail \/ MapSubmit \/ MapReturn \/ PoolExit
  \/ \E w \in 1..Len(multi.pool) :
       WorkerTake(w) \/ WorkerFinish(w) \/ WorkerRaise(w)
  \/ MemAlloc \/ MemAllocFail \/ MemWrite \/ MemWriteDone \/ MemRead
  \/ MemReturn
  \/ DiskOpen \/ DiskOpenFail \/ DiskWrite \/ DiskWriteFail \/ DiskFlush
  \/ DiskFlushFail \/ DiskSeek \/ DiskSeekFail \/ DiskRead \/ DiskReadFail
  \/ DiskExit
  \/ PyInit \/ PyIter \/ PyReturn
  \/ NumpyRun

Spec == Init /\ [][Next]_vars

TypeOK ==
  /\ entry \in Entries
  /\ \A k \in 1..Len(stack) : stack[k] \in Range(Phases) \cup {"main", "timer"}
  /\ exc \in {None, "OSError", "MemoryError", "WorkerError", "ValueError",
              "NameError"}
  /\ clock \in Nat

(* ======================== properties of the code ======================= *)
Returned(f) == f \in Range(returned)

\* f was invoked and its frame has left the stack (by return or exception).
Ended(f) == f \in Range(started) /\ f \notin Range(stack)

LastReturnedIs(f) == returned # <<>> /\ returned[Len(returned)] = f

IsPrefix(s, t) == Len(s) <= Len(t) /\ \A k \in 1..Len(s) : s[k] = t[k]

Alive(w) == multi.pool[w] \in {"idle", "busy"}

ReportLines == {k \in 1..Len(out) : out[k].kind = "report"}

\* C1: in a run of main the phases start in the order cpu_single,
\* cpu_multi, memory_test, disk_test, python_overhead, numpy_test, none
\* twice; a phase starts only when every phase before it has returned; at
\* most one phase is active at a time; worker processes are alive only
\* inside cpu_multi and all of them have exited, with every task complete,
\* once memory_test has started; and a run that reaches "Done." has started
\* every phase exactly once (numpy_test exactly when numpy is available).
C1_PhasesSequential ==
  entry = "main" =>
    /\ IsPrefix(started, Phases)
    /\ IsPrefix(returned, started)
    /\ Len(started) <= Len(returned) + 1
    /\ Cardinality({k \in 1..Len(stack) : stack[k] \in Range(Phases)}) <= 1
    /\ \A w \in 1..Len(multi.pool) : Alive(w) => Top = "cpu_multi"
    /\ "memory_test" \in Range(started) =>
         /\ Len(multi.pool) = Cores
         /\ \A w \in 1..Len(multi.pool) : multi.pool[w] = "exited"
         /\ \A t \in 1..Len(multi.tasks) : multi.tasks[t].st = "done"
    /\ pc = "exit" =>
         started = IF HAS_NUMPY THEN Phases ELSE SubSeq(Phases, 1, 5)

\* A complete run with numpy: all six phases ran, the pool is gone.
C1_Witness ==
  /\ entry = "main" /\ pc = "exit" /\ HAS_NUMPY
  /\ Len(started) = 6
  /\ Len(multi.pool) = Cores
  /\ \A w \in 1..Len(multi.pool) : multi.pool[w] = "exited"

\* C2: cpu_multi(n, workers) builds a pool of exactly `workers` processes,
\* submits exactly `workers` tasks each with argument n, and its frame is
\* never left while a task is queued or running; when it has returned,
\* every task is done with the result of cpu_worker(n).
C2_PoolJoinedBeforeReturn ==
  "cpu_multi" \in Range(started) =>
    LET n == Actual("cpu_multi").n
        workers == Actual("cpu_multi").workers
    IN  /\ Len(multi.pool) <= workers
        /\ (Top = "cpu_multi" /\ pc \in {"cm_map", "cm_wait"}) =>
             /\ Len(multi.pool) = workers
             /\ \A w \in 1..workers : Alive(w)
        /\ (Top = "cpu_multi" /\ pc \in {"cm_wait", "cm_exit"}) =>
             /\ Len(multi.tasks) = workers
             /\ \A t \in 1..workers : multi.tasks[t].arg = n
        /\ Ended("cpu_multi") =>
             \A t \in 1..Len(multi.tasks) : Completed(t)
        /\ Returned("cpu_multi") =>
             /\ Len(multi.pool) = workers
             /\ Len(multi.tasks) = workers
             /\ \A t \in 1..workers :
                  /\ multi.tasks[t].arg = n
                  /\ multi.tasks[t].st = "done"
                  /\ multi.tasks[t].result = cpu_single(n)

\* A direct call with two tasks has returned, and one worker ran both.
C2_Witness ==
  /\ entry = "cpu_multi" /\ pc = "returned"
  /\ Len(multi.tasks) >= 2
  /\ multi.tasks[1].worker = multi.tasks[2].worker

\* C3: when a worker of cpu_multi could not be spawned or a task raised,
\* the call does not return normally: once its frame is gone an exception
\* is in flight (or has ended the run) and cpu_multi is not among the
\* workloads that returned.
C3_WorkerFailureFailsCall ==
  "cpu_multi" \in Range(started) =>
    LET failed == \/ multi.spawn_failed
                  \/ \E t \in 1..Len(multi.tasks) : multi.tasks[t].st = "raised"
    IN  /\ Returned("cpu_multi") => ~failed
        /\ (failed /\ Ended("cpu_multi")) =>
             /\ exc \in {"OSError", "WorkerError"}
             /\ exc = IF multi.spawn_failed THEN "OSError" ELSE "WorkerError"
             /\ ~Returned("cpu_multi")

\* One task raised after another had succeeded, and the call has failed.
C3_Witness ==
  /\ Ended("cpu_multi")
  /\ exc = "WorkerError"
  /\ Len(multi.tasks) >= 2
  /\ multi.tasks[1].st = "done"
  /\ multi.tasks[2].st = "raised"

\* C4: once disk_test has ended, by return or by an exception out of the
\* creation, a write, the flush, the seek or a read, its temporary file
\* does not exist (and is not open).
C4_TempFileRemoved ==
  Ended("disk_test") => (~disk.exists /\ ~disk.open)

\* disk_test was left by a failure in the read-back pass after a non-empty
\* read: the file had been created and written.
C4_Witness ==
  /\ Ended("disk_test")
  /\ exc = "OSError"
  /\ disk.created /\ disk.flen > 0
  /\ disk.reads # <<>>

\* C5: without numpy, main never invokes numpy_test; after the five other
\* workloads have returned nothing can abort the run; and at the end of the
\* run the output holds one report line per workload, in order, then the
\* "NumPy: not installed" line, then "Done.".
C5_NumpyAbsentTolerated ==
  (entry = "main" /\ ~HAS_NUMPY) =>
    /\ "numpy_test" \notin Range(started)
    /\ "numpy_test" \notin Range(stack)
    /\ timerv.fn # "numpy_test"
    /\ Len(returned) = 5 =>
         /\ exc = None
         /\ pc \in {"t_return", "m_print", "m_if_numpy", "m_done", "exit"}
    /\ pc = "exit" =>
         /\ returned = SubSeq(Phases, 1, 5)
         /\ Len(out) = 12
         /\ \A k \in 1..5 :
              /\ out[5 + k].kind = "report"
              /\ out[5 + k].text = ReportText(Phases[k])
         /\ out[11] = Line("skip", "NumPy: not installed", 0, 0)
         /\ out[12] = Line("done", "\nDone.", 0, 0)

C5_Witness ==
  /\ entry = "main" /\ ~HAS_NUMPY /\ pc = "exit"
  /\ Len(returned) = 5

\* C6: what holds in every state of a run of main in which a workload has
\* failed: the failed workload was started once, has no report line, the
\* report lines are those of the workloads before it, "Done." is not
\* printed and the run does not reach its normal end.
C6_AbortState ==
  (entry = "main" /\ exc # None) =>
    LET f == started[Len(started)]
    IN  /\ Cardinality({k \in 1..Len(started) : started[k] = f}) = 1
        /\ \A k \in ReportLines : out[k].text # ReportText(f)
        /\ Cardinality(ReportLines) = Len(started) - 1
        /\ Len(returned) = Len(started) - 1
        /\ \A k \in 1..Len(out) : out[k].kind # "done"
        /\ pc # "exit"

\* C6: and no step taken after the failure starts a workload, prints a
\* line or clears the failure.
C6_AbortStep ==
  (entry = "main" /\ exc # None) =>
    /\ started' = started
    /\ returned' = returned
    /\ out' = out
    /\ exc' = exc

\* C6: a failure of a workload aborts the whole run of main: no retry, no
\* report line for the failed workload, no later workload, no "Done.".
C6_FailureAbortsRun == [](C6_AbortState) /\ [][C6_AbortStep]_vars

\* The run was ended by memory_test failing to allocate its buffer.
C6_Witness ==
  /\ entry = "main" /\ pc = "aborted"
  /\ exc = "MemoryError"
  /\ started = SubSeq(Phases, 1, 3)

\* C7: timer calls fn exactly once, after its first clock reading and
\* before its second; its result is (second reading - first reading, the
\* value fn returned); when fn raises, timer produces no result, reads the
\* clock no second time, and the exception reaches main as it was raised.
C7_TimerContract ==
  entry = "main" =>
    /\ timerv.calls <= 1
    /\ At("timer", "t_start") => (timerv.reads = 0 /\ timerv.calls = 0)
    /\ At("timer", "t_call") => (timerv.reads = 1 /\ timerv.calls = 0)
    /\ (Top \in Range(Phases) \/ At("timer", "t_return")) =>
         /\ timerv.reads = 1
         /\ timerv.calls = 1
         /\ timerv.fn = started[Len(started)]
         /\ ~timerv.has_result
    /\ timerv.has_result =>
         /\ timerv.calls = 1
         /\ timerv.reads = 2
         /\ timerv.start <= timerv.end
         /\ timerv.elapsed = timerv.end - timerv.start
         /\ LastReturnedIs(timerv.fn)
         /\ exc = None
         /\ timerv.result = ret
    /\ (At("main", "raise") \/ pc = "aborted") =>
         /\ ~timerv.has_result
         /\ timerv.calls = 1
         /\ timerv.reads = 1
         /\ exc # None
         /\ exc = thrown

\* disk_test raised inside timer and the exception has reached main.
C7_Witness ==
  /\ At("main", "raise")
  /\ timerv.fn = "disk_test"
  /\ thrown = "OSError"

RECURSIVE RefStrideSum(_, _)
RefStrideSum(i, size) ==
  IF i >= size THEN 0 ELSE (i % 256) + RefStrideSum(i + 64, size)

\* C8: memory_test(size_mb) returns the sum of i mod 256 over the offsets
\* i = 0, 64, 128, ... below size; the read pass visited exactly the
\* offsets the write pass wrote, each still holding i mod 256; and the
\* only way memory_test ends without returning is the failed allocation.
C8_MemorySum ==
  "memory_test" \in Range(started) =>
    LET size == Actual("memory_test").size_mb * MiB
    IN  /\ LastReturnedIs("memory_test") =>
             /\ ret = RefStrideSum(0, size)
             /\ mem.wrote = {i \in 0..(size - 1) : i % 64 = 0}
             /\ mem.read = mem.wrote
             /\ \A i \in mem.read : mem.buf[i] = i % 256
        /\ Ended("memory_test") =>
             (Returned("memory_test") \/ thrown = "MemoryError")

\* A direct call returned after the stored values had wrapped around 256.
C8_Witness ==
  /\ entry = "memory_test" /\ pc = "returned"
  /\ 256 \in mem.read
  /\ ret > 0

\* C9: when disk_test(size_mb) has returned, it wrote
\* floor(size / chunk) * chunk bytes (chunk = one scaled megabyte), flushed,
\* and read back from offset 0 floor(size / chunk) full chunks one after
\* another followed by exactly one empty read.
C9_DiskBytes ==
  Returned("disk_test") =>
    LET size == Actual("disk_test").size_mb * MiB
        chunk == MiB
        count == size \div chunk
    IN  /\ disk.written = count * chunk
        /\ disk.flen = disk.written
        /\ disk.flushed
        /\ Len(disk.reads) = count + 1
        /\ \A k \in 1..count :
             /\ disk.reads[k].at = (k - 1) * chunk
             /\ disk.reads[k].got = chunk
        /\ disk.reads[count + 1].got = 0
        /\ disk.reads[count + 1].at = disk.written

C9_Witness ==
  /\ entry = "disk_test" /\ pc = "returned"
  /\ Len(disk.reads) >= 3

\* C10: python_overhead(n) calls inner exactly n times, the first time with
\* 0 and then with the previous call's result, returns n, and never raises.
C10_OverheadFold ==
  "python_overhead" \in Range(started) =>
    LET n == Actual("python_overhead").n
    IN  /\ LastReturnedIs("python_overhead") =>
             /\ ret = n
             /\ Len(py.calls) = n
             /\ n > 0 => py.calls[1].arg = 0
             /\ \A k \in 2..n : py.calls[k].arg = py.calls[k - 1].res
             /\ \A k \in 1..n : py.calls[k].res = py.calls[k].arg + 1
        /\ Ended("python_overhead") => Returned("python_overhead")

C10_Witness ==
  /\ entry = "python_overhead" /\ pc = "returned"
  /\ ret >= 2
  /\ Len(py.calls) = ret

====
